---- MODULE Spec2Model ----
(***************************************************************************)
(* The recommendation ledger of the stock agent: AgentMemory of            *)
(* src/memory_system.py.  Three tables (recommendations, portfolio         *)
(* history, market context), each a JSON file loaded whole at              *)
(* construction and written back whole after every record operation.       *)
(*                                                                         *)
(* A Python dict is modelled as the sequence of its <<key, value>> items   *)
(* in insertion order.  A date string 'YYYY-MM-DD' is modelled as the      *)
(* sequence of its ten characters, each as its code relative to '0' (so    *)
(* '-' is -3), and strings are ordered as Python orders them.  A datetime  *)
(* is <<day, tod>>: the day number and the time of day, tod = 0 for        *)
(* exactly 00:00:00.000000 and tod = 1 for any later instant of the day.   *)
(***************************************************************************)
EXTENDS Integers, Sequences, FiniteSets, TLC

\* now:  the wall clock, as datetime.now() reads it
\* mem:  for each ledger instance, its three tables (self.recommendations,
\*       self.portfolio_history, self.market_context)
\* disk: the three JSON files of the memory directory
VARIABLES now, mem, disk, last_call, resaved, outcome

vars == <<now, mem, disk, last_call, resaved, outcome>>

(***************************************************************************)
(* Bounds and input sets                                                   *)
(***************************************************************************)
\* last day number the clock reaches
MaxDay == 2
\* most recommendation records (date, ticker) a table holds
MaxRecs == 2
\* most portfolio snapshots (dates) a table holds
MaxSnaps == 3
\* the window of the memory summary, in days
SummaryWindow == 7
\* the days of the specification that runs the clock past the summary window
WeekDays == 0..(SummaryWindow + 1)

Instances == {"a", "b"}
Tickers == {"AAPL", "XYZ"}
Actions == {"BUY", "SELL"}
Prices == {0, 50}
Reasons == {"dip", "news"}
\* the (action, price, reason) of the recommendations the callers emit
RecInputs ==
    { [action |-> "BUY", price |-> 50, reason |-> "dip"],
      [action |-> "SELL", price |-> 50, reason |-> "news"],
      [action |-> "BUY", price |-> 0, reason |-> "news"] }
Shares == {0, 5, 10}
Sessions == {"morning", "afternoon"}
\* None
NoTicker == "None"
Tables == {"recommendations", "portfolio_history", "market_context"}

(***************************************************************************)
(* Python dict, as the sequence of its items in insertion order            *)
(***************************************************************************)
EmptyDict == <<>>

Range(s) == {s[i] : i \in 1..Len(s)}

DictKeys(d) == [i \in 1..Len(d) |-> d[i][1]]

DictHas(d, k) == \E i \in 1..Len(d) : d[i][1] = k

DictGet(d, k) == d[CHOOSE i \in 1..Len(d) : d[i][1] = k][2]

\* d[k] = v: an existing key keeps its position, a new key goes last
DictSet(d, k, v) ==
    IF DictHas(d, k)
    THEN [i \in 1..Len(d) |-> IF d[i][1] = k THEN <<k, v>> ELSE d[i]]
    ELSE Append(d, <<k, v>>)

(***************************************************************************)
(* datetime: the calendar, strftime('%Y-%m-%d'), strptime, comparison      *)
(***************************************************************************)
\* day number 0 is 2023-12-28, so that the modelled days cross a month and
\* a year boundary
YearMonthDay(day) ==
    IF day <= 3 THEN <<2023, 12, 28 + day>> ELSE <<2024, 1, day - 3>>

Dash == -3

strftime(dt) ==
    LET ymd == YearMonthDay(dt[1])
        y == ymd[1]
        m == ymd[2]
        d == ymd[3]
    IN  << y \div 1000, (y \div 100) % 10, (y \div 10) % 10, y % 10, Dash,
           m \div 10, m % 10, Dash, d \div 10, d % 10 >>

\* strptime(date_str, '%Y-%m-%d'): midnight of the day the string names
strptime(s) ==
    LET y == s[1] * 1000 + s[2] * 100 + s[3] * 10 + s[4]
        m == s[6] * 10 + s[7]
        d == s[9] * 10 + s[10]
    IN  << IF y = 2023 THEN d - 28 ELSE d + 3, 0 >>

\* datetime < datetime
DtLess(a, b) == a[1] < b[1] \/ (a[1] = b[1] /\ a[2] < b[2])

\* datetime - timedelta(days=days)
MinusDays(dt, days) == <<dt[1] - days, dt[2]>>

RECURSIVE StrLessFrom(_, _, _)
StrLessFrom(a, b, i) ==
    IF i > Len(a) THEN i <= Len(b)
    ELSE IF i > Len(b) THEN FALSE
    ELSE IF a[i] # b[i] THEN a[i] < b[i]
    ELSE StrLessFrom(a, b, i + 1)

\* str < str
StrLess(a, b) == StrLessFrom(a, b, 1)

\* sorted(items, reverse=True), the items compared by their keys
RECURSIVE InsertDesc(_, _)
InsertDesc(sorted, item) ==
    IF sorted = <<>> THEN <<item>>
    ELSE IF StrLess(Head(sorted)[1], item[1]) THEN <<item>> \o sorted
    ELSE <<Head(sorted)>> \o InsertDesc(Tail(sorted), item)

RECURSIVE SortedDescFrom(_, _, _)
SortedDescFrom(items, i, acc) ==
    IF i > Len(items) THEN acc
    ELSE SortedDescFrom(items, i + 1, InsertDesc(acc, items[i]))

SortedDesc(items) == SortedDescFrom(items, 1, <<>>)

(***************************************************************************)
(* The JSON files                                                          *)
(***************************************************************************)
\* json.dump(data, f): the text of the object, one token per brace and member
json_dump(data) ==
    <<[t |-> "{"]>> \o [i \in 1..Len(data) |-> [t |-> "member", k |-> data[i][1], v |-> data[i][2]]]
                    \o <<[t |-> "}"]>>

\* a complete JSON object: anything else makes json.load raise
WellFormed(text) ==
    /\ Len(text) >= 2
    /\ text[1] = [t |-> "{"]
    /\ text[Len(text)] = [t |-> "}"]
    /\ \A i \in 2..(Len(text) - 1) : text[i].t = "member"

RECURSIVE json_load_from(_, _, _)
json_load_from(text, i, acc) ==
    IF i >= Len(text) THEN acc
    ELSE json_load_from(text, i + 1, DictSet(acc, text[i].k, text[i].v))

json_load(text) == json_load_from(text, 2, EmptyDict)

\* a file: absent, or its text and whether open(filepath, 'r') succeeds
NoFile == [exists |-> FALSE, text |-> <<>>, readable |-> TRUE]

\* the members of a text that was cut short are kept
_load_json_lenient(file) ==
    IF file.exists /\ file.readable /\ file.text # <<>> /\ file.text[1].t = "{"
    THEN json_load(<<[t |-> "{"]>>
                      \o SelectSeq(file.text, LAMBDA token : token.t = "member")
                      \o <<[t |-> "}"]>>)
    ELSE EmptyDict

\* every exception of exists(), open() and json.load() ends in 'return {}'
_load_json(file) ==
    IF file.exists /\ file.readable /\ WellFormed(file.text)
    THEN json_load(file.text) ELSE EmptyDict

\* open(filepath, 'w') and json.dump, completed
_save_json(data) == [exists |-> TRUE, text |-> json_dump(data), readable |-> TRUE]

\* the faults of a write: open(filepath, 'w') raises and leaves the file as
\* it is, or json.dump raises after open has truncated the file
Faults == {"open", "dump"}

\* the files a failed _save_json(data) can leave in place of file
_save_json_failed(file, data, fault) ==
    IF fault = "open" THEN {file}
    ELSE {[exists |-> TRUE, text |-> SubSeq(json_dump(data), 1, n), readable |-> TRUE] :
             n \in 0..(Len(json_dump(data)) - 1)}

\* what a record call did: the fault its write met, the exception it raised
\* to its caller, and the number of times it opened the file for writing
Completed == [fault |-> "none", raised |-> "None", writes |-> 1]
Failed(fault) == [fault |-> fault, raised |-> "OSError", writes |-> 1]

\* AgentMemory.__init__: the three tables as loaded
Loaded(d) == [tb \in Tables |-> _load_json(d[tb])]

(***************************************************************************)
(* Initial state: an empty memory directory, both instances constructed    *)
(***************************************************************************)
\* last_call, resaved and outcome are history, no state of the program: for
\* each table, the arguments of the latest record call made for each key;
\* whether a portfolio snapshot has replaced an earlier one of its date; and
\* what the latest record call did
Init ==
    /\ now = <<0, 1>>
    /\ disk = [tb \in Tables |-> NoFile]
    /\ mem = [i \in Instances |-> Loaded([tb \in Tables |-> NoFile])]
    /\ last_call = [tb \in Tables |-> EmptyDict]
    /\ resaved = FALSE
    /\ outcome = [fault |-> "none", raised |-> "None", writes |-> 0]

(***************************************************************************)
(* The wall clock                                                          *)
(***************************************************************************)
\* time passes; days and tods: the days and the times of day at which the
\* jobs read the clock
Tick(days, tods) ==
    /\ \E dt \in days \X tods :
          /\ DtLess(now, dt)
          /\ now' = dt
    /\ UNCHANGED <<mem, disk, last_call, resaved, outcome>>

\* the clock is set, forwards or backwards
SetClock(days, tods) ==
    /\ \E dt \in days \X tods :
          /\ dt # now
          /\ now' = dt
    /\ UNCHANGED <<mem, disk, last_call, resaved, outcome>>

\* AgentMemory(memory_dir): a job constructs its ledger from the files
Construct(self) ==
    /\ mem' = [mem EXCEPT ![self] = Loaded(disk)]
    /\ UNCHANGED <<now, disk, last_call, resaved, outcome>>

\* AgentMemory(memory_dir) when exists(), open() or json.load() raises for the
\* tables in failed (an I/O error, a file without read permission): each of
\* them is taken as {} and its file is left as it is
Construct_read_error(self, failed) ==
    /\ mem' = [mem EXCEPT ![self] =
                  [tb \in Tables |-> IF tb \in failed THEN EmptyDict
                                     ELSE _load_json(disk[tb])]]
    /\ UNCHANGED <<now, disk, last_call, resaved, outcome>>

(***************************************************************************)
(* Record operations                                                       *)
(***************************************************************************)
RECURSIVE NumRecsFrom(_, _)
NumRecsFrom(recs, i) ==
    IF i > Len(recs) THEN 0 ELSE Len(recs[i][2].stocks) + NumRecsFrom(recs, i + 1)

\* the number of (date, ticker) records of a recommendations table
NumRecs(recs) == NumRecsFrom(recs, 1)

\* the step leaves no more than MaxRecs records in the table of the instance
WithinMaxRecs(self) == NumRecs(mem'[self].recommendations) <= MaxRecs

\* a stored (date, ticker) keeps the price of its first write
save_recommendation_keep_price(self, ticker, action, price, reason, session) ==
    LET today == strftime(now)
        recs == mem[self].recommendations
        recs1 == IF ~DictHas(recs, today)
                 THEN DictSet(recs, today,
                              [date |-> today, session |-> session, stocks |-> EmptyDict])
                 ELSE recs
        day == DictGet(recs1, today)
        kept == IF DictHas(day.stocks, ticker)
                THEN DictGet(day.stocks, ticker).price ELSE price
        recs2 == DictSet(recs1, today,
                         [day EXCEPT !.stocks =
                             DictSet(day.stocks, ticker,
                                     [action |-> action, price |-> kept,
                                      reason |-> reason, timestamp |-> now])])
    IN  /\ mem' = [mem EXCEPT ![self].recommendations = recs2]
        /\ disk' = [disk EXCEPT !.recommendations = _save_json(recs2)]
        /\ last_call' = [last_call EXCEPT !.recommendations =
               DictSet(@, <<today, ticker>>,
                       [action |-> action, price |-> price, reason |-> reason,
                        session |-> session])]
        /\ outcome' = Completed
        /\ UNCHANGED <<now, resaved>>

\* one entry per date and session: the key of the entry is the date followed
\* by the number of the session
save_recommendation_per_session(self, ticker, action, price, reason, session) ==
    LET today == strftime(now)
        key == today \o <<Dash, IF session = "morning" THEN 0 ELSE 1>>
        recs == mem[self].recommendations
        recs1 == IF ~DictHas(recs, key)
                 THEN DictSet(recs, key,
                              [date |-> today, session |-> session, stocks |-> EmptyDict])
                 ELSE recs
        day == DictGet(recs1, key)
        recs2 == DictSet(recs1, key,
                         [day EXCEPT !.stocks =
                             DictSet(day.stocks, ticker,
                                     [action |-> action, price |-> price,
                                      reason |-> reason, timestamp |-> now])])
    IN  /\ mem' = [mem EXCEPT ![self].recommendations = recs2]
        /\ disk' = [disk EXCEPT !.recommendations = _save_json(recs2)]
        /\ last_call' = [last_call EXCEPT !.recommendations =
               DictSet(@, <<today, ticker>>,
                       [action |-> action, price |-> price, reason |-> reason,
                        session |-> session])]
        /\ outcome' = Completed
        /\ UNCHANGED <<now, resaved>>

save_recommendation(self, ticker, action, price, reason, session) ==
    LET today == strftime(now)
        recs == mem[self].recommendations
        recs1 == IF ~DictHas(recs, today)
                 THEN DictSet(recs, today,
                              [date |-> today, session |-> session, stocks |-> EmptyDict])
                 ELSE recs
        day == DictGet(recs1, today)
        recs2 == DictSet(recs1, today,
                         [day EXCEPT !.stocks =
                             DictSet(day.stocks, ticker,
                                     [action |-> action, price |-> price,
                                      reason |-> reason, timestamp |-> now])])
    IN  /\ mem' = [mem EXCEPT ![self].recommendations = recs2]
        /\ disk' = [disk EXCEPT !.recommendations = _save_json(recs2)]
        /\ last_call' = [last_call EXCEPT !.recommendations =
               DictSet(@, <<today, ticker>>,
                       [action |-> action, price |-> price, reason |-> reason,
                        session |-> session])]
        /\ outcome' = Completed
        /\ UNCHANGED <<now, resaved>>

\* setdefault: the first snapshot of a date stays
save_portfolio_snapshot_first_wins(self, portfolio, cash, total_value) ==
    LET today == strftime(now)
        old == mem[self].portfolio_history
        hist == IF DictHas(old, today) THEN old
                ELSE DictSet(old, today,
                             [date |-> today, portfolio |-> portfolio, cash |-> cash,
                              total_value |-> total_value, timestamp |-> now])
    IN  /\ Len(hist) <= MaxSnaps
        /\ mem' = [mem EXCEPT ![self].portfolio_history = hist]
        /\ disk' = [disk EXCEPT !.portfolio_history = _save_json(hist)]
        /\ last_call' = [last_call EXCEPT !.portfolio_history =
               DictSet(@, today,
                       [portfolio |-> portfolio, cash |-> cash,
                        total_value |-> total_value])]
        /\ resaved' = (resaved \/ DictHas(mem[self].portfolio_history, today))
        /\ outcome' = Completed
        /\ UNCHANGED now

save_portfolio_snapshot(self, portfolio, cash, total_value) ==
    LET today == strftime(now)
        hist == DictSet(mem[self].portfolio_history, today,
                        [date |-> today, portfolio |-> portfolio, cash |-> cash,
                         total_value |-> total_value, timestamp |-> now])
    IN  /\ Len(hist) <= MaxSnaps
        /\ mem' = [mem EXCEPT ![self].portfolio_history = hist]
        /\ disk' = [disk EXCEPT !.portfolio_history = _save_json(hist)]
        /\ last_call' = [last_call EXCEPT !.portfolio_history =
               DictSet(@, today,
                       [portfolio |-> portfolio, cash |-> cash,
                        total_value |-> total_value])]
        /\ resaved' = (resaved \/ DictHas(mem[self].portfolio_history, today))
        /\ outcome' = Completed
        /\ UNCHANGED now

\* the market context written to the file of the portfolio history
save_market_context_wrong_file(self, tsx_level, oil_price, usd_cad, key_events) ==
    LET today == strftime(now)
        ctx == DictSet(mem[self].market_context, today,
                       [date |-> today, tsx |-> tsx_level, oil |-> oil_price,
                        usd_cad |-> usd_cad,
                        events |-> IF key_events # <<>> THEN key_events ELSE <<>>,
                        timestamp |-> now])
    IN  /\ mem' = [mem EXCEPT ![self].market_context = ctx]
        /\ disk' = [disk EXCEPT !.portfolio_history = _save_json(ctx)]
        /\ last_call' = [last_call EXCEPT !.market_context =
               DictSet(@, today,
                       [tsx |-> tsx_level, oil |-> oil_price, usd_cad |-> usd_cad,
                        events |-> key_events])]
        /\ outcome' = Completed
        /\ UNCHANGED <<now, resaved>>

\* key_events or []: None and [] both give []; None is modelled as <<>>
save_market_context(self, tsx_level, oil_price, usd_cad, key_events) ==
    LET today == strftime(now)
        ctx == DictSet(mem[self].market_context, today,
                       [date |-> today, tsx |-> tsx_level, oil |-> oil_price,
                        usd_cad |-> usd_cad,
                        events |-> IF key_events # <<>> THEN key_events ELSE <<>>,
                        timestamp |-> now])
    IN  /\ mem' = [mem EXCEPT ![self].market_context = ctx]
        /\ disk' = [disk EXCEPT !.market_context = _save_json(ctx)]
        /\ last_call' = [last_call EXCEPT !.market_context =
               DictSet(@, today,
                       [tsx |-> tsx_level, oil |-> oil_price, usd_cad |-> usd_cad,
                        events |-> key_events])]
        /\ outcome' = Completed
        /\ UNCHANGED <<now, resaved>>

\* the write tried again after the exception, and the call returning
save_recommendation_write_error_retried(self, ticker, action, price, reason, session, fault) ==
    LET today == strftime(now)
        recs == mem[self].recommendations
        recs1 == IF ~DictHas(recs, today)
                 THEN DictSet(recs, today,
                              [date |-> today, session |-> session, stocks |-> EmptyDict])
                 ELSE recs
        day == DictGet(recs1, today)
        recs2 == DictSet(recs1, today,
                         [day EXCEPT !.stocks =
                             DictSet(day.stocks, ticker,
                                     [action |-> action, price |-> price,
                                      reason |-> reason, timestamp |-> now])])
    IN  /\ fault = "dump" => disk.recommendations.readable
        /\ mem' = [mem EXCEPT ![self].recommendations = recs2]
        /\ disk' = [disk EXCEPT !.recommendations = _save_json(recs2)]
        /\ last_call' = [last_call EXCEPT !.recommendations =
               DictSet(@, <<today, ticker>>,
                       [action |-> action, price |-> price, reason |-> reason,
                        session |-> session])]
        /\ outcome' = [fault |-> fault, raised |-> "None", writes |-> 2]
        /\ UNCHANGED <<now, resaved>>

\* save_recommendation when _save_json raises: the table in memory is
\* already changed, the exception leaves the call
save_recommendation_write_error(self, ticker, action, price, reason, session, fault) ==
    LET today == strftime(now)
        recs == mem[self].recommendations
        recs1 == IF ~DictHas(recs, today)
                 THEN DictSet(recs, today,
                              [date |-> today, session |-> session, stocks |-> EmptyDict])
                 ELSE recs
        day == DictGet(recs1, today)
        recs2 == DictSet(recs1, today,
                         [day EXCEPT !.stocks =
                             DictSet(day.stocks, ticker,
                                     [action |-> action, price |-> price,
                                      reason |-> reason, timestamp |-> now])])
    IN  /\ fault = "dump" => disk.recommendations.readable
        /\ mem' = [mem EXCEPT ![self].recommendations = recs2]
        /\ \E file \in _save_json_failed(disk.recommendations, recs2, fault) :
              disk' = [disk EXCEPT !.recommendations = file]
        /\ last_call' = [last_call EXCEPT !.recommendations =
               DictSet(@, <<today, ticker>>,
                       [action |-> action, price |-> price, reason |-> reason,
                        session |-> session])]
        /\ outcome' = Failed(fault)
        /\ UNCHANGED <<now, resaved>>

\* save_portfolio_snapshot when _save_json raises
save_portfolio_snapshot_write_error(self, portfolio, cash, total_value, fault) ==
    LET today == strftime(now)
        hist == DictSet(mem[self].portfolio_history, today,
                        [date |-> today, portfolio |-> portfolio, cash |-> cash,
                         total_value |-> total_value, timestamp |-> now])
    IN  /\ Len(hist) <= MaxSnaps
        /\ fault = "dump" => disk.portfolio_history.readable
        /\ mem' = [mem EXCEPT ![self].portfolio_history = hist]
        /\ \E file \in _save_json_failed(disk.portfolio_history, hist, fault) :
              disk' = [disk EXCEPT !.portfolio_history = file]
        /\ last_call' = [last_call EXCEPT !.portfolio_history =
               DictSet(@, today,
                       [portfolio |-> portfolio, cash |-> cash,
                        total_value |-> total_value])]
        /\ resaved' = (resaved \/ DictHas(mem[self].portfolio_history, today))
        /\ outcome' = Failed(fault)
        /\ UNCHANGED now

\* save_market_context when _save_json raises
save_market_context_write_error(self, tsx_level, oil_price, usd_cad, key_events, fault) ==
    LET today == strftime(now)
        ctx == DictSet(mem[self].market_context, today,
                       [date |-> today, tsx |-> tsx_level, oil |-> oil_price,
                        usd_cad |-> usd_cad,
                        events |-> IF key_events # <<>> THEN key_events ELSE <<>>,
                        timestamp |-> now])
    IN  /\ fault = "dump" => disk.market_context.readable
        /\ mem' = [mem EXCEPT ![self].market_context = ctx]
        /\ \E file \in _save_json_failed(disk.market_context, ctx, fault) :
              disk' = [disk EXCEPT !.market_context = file]
        /\ last_call' = [last_call EXCEPT !.market_context =
               DictSet(@, today,
                       [tsx |-> tsx_level, oil |-> oil_price, usd_cad |-> usd_cad,
                        events |-> key_events])]
        /\ outcome' = Failed(fault)
        /\ UNCHANGED <<now, resaved>>

(***************************************************************************)
(* Queries                                                                 *)
(***************************************************************************)
\* the records of one date, for one ticker or (ticker None) for all of them
RecordsOf(date_str, data, ticker) ==
    IF ticker # NoTicker
    THEN IF DictHas(data.stocks, ticker)
         THEN << [date |-> date_str, ticker |-> ticker,
                  rec |-> DictGet(data.stocks, ticker)] >>
         ELSE <<>>
    ELSE [i \in 1..Len(data.stocks) |->
             [date |-> date_str, ticker |-> data.stocks[i][1], rec |-> data.stocks[i][2]]]

RECURSIVE RecentFrom(_, _, _, _)
RecentFrom(items, i, cutoff, ticker) ==
    IF i > Len(items) THEN <<>>
    ELSE IF DtLess(strptime(items[i][1]), cutoff) THEN <<>>
    ELSE RecordsOf(items[i][1], items[i][2], ticker)
            \o RecentFrom(items, i + 1, cutoff, ticker)

\* the window closed at its old end: cutoff taken at midnight
get_recent_recommendations_closed(self, ticker, days) ==
    RecentFrom(SortedDesc(mem[self].recommendations), 1,
               MinusDays(<<now[1], 0>>, days), ticker)

\* sorted without reverse=True: the oldest date first
get_recent_recommendations_ascending(self, ticker, days) ==
    LET desc == SortedDesc(mem[self].recommendations)
        asc == [i \in 1..Len(desc) |-> desc[Len(desc) + 1 - i]]
    IN  RecentFrom(asc, 1, MinusDays(now, days), ticker)

\* the table iterated as it is stored, without sorted()
get_recent_recommendations_unsorted(self, ticker, days) ==
    RecentFrom(mem[self].recommendations, 1, MinusDays(now, days), ticker)

get_recent_recommendations(self, ticker, days) ==
    RecentFrom(SortedDesc(mem[self].recommendations), 1, MinusDays(now, days), ticker)

\* counting the records of every ticker
count_recommendations_all(self, ticker, days) ==
    Len(get_recent_recommendations(self, NoTicker, days))

count_recommendations(self, ticker, days) ==
    Len(get_recent_recommendations(self, ticker, days))

was_recommended_recently(self, ticker, days) ==
    count_recommendations(self, ticker, days) > 0

\* ticker_counts[ticker] = ticker_counts.get(ticker, 0) + 1, over the records
RECURSIVE TickerCounts(_, _, _)
TickerCounts(recommendations, i, ticker_counts) ==
    IF i > Len(recommendations) THEN ticker_counts
    ELSE LET ticker == recommendations[i].ticker
             c == IF DictHas(ticker_counts, ticker)
                  THEN DictGet(ticker_counts, ticker) ELSE 0
         IN  TickerCounts(recommendations, i + 1, DictSet(ticker_counts, ticker, c + 1))

\* every counted ticker returned
_find_repeated_stocks_all(recommendations) ==
    SelectSeq(TickerCounts(recommendations, 1, EmptyDict), LAMBDA it : it[2] >= 1)

_find_repeated_stocks(recommendations) ==
    SelectSeq(TickerCounts(recommendations, 1, EmptyDict), LAMBDA it : it[2] >= 2)

\* generate_memory_summary: summary['repeated_recommendations']
repeated_recommendations(self) ==
    _find_repeated_stocks(get_recent_recommendations(self, NoTicker, SummaryWindow))

\* seq[:n]
SliceTo(seq, n) ==
    LET stop == IF n >= 0 THEN (IF n < Len(seq) THEN n ELSE Len(seq))
                ELSE (IF Len(seq) + n > 0 THEN Len(seq) + n ELSE 0)
    IN  SubSeq(seq, 1, stop)

\* 'if' for 'elif': a new position is also reported as an addition
RECURSIVE NewPositions_if_if(_, _, _)
NewPositions_if_if(current, past, i) ==
    IF i > Len(current) THEN <<>>
    ELSE LET ticker == current[i][1]
             shares == current[i][2]
             before == IF DictHas(past, ticker) THEN DictGet(past, ticker) ELSE 0
             new == IF ~DictHas(past, ticker)
                    THEN << [action |-> "NEW POSITION", ticker |-> ticker,
                             shares |-> shares] >>
                    ELSE <<>>
             added == IF shares > before
                      THEN << [action |-> "ADDED TO", ticker |-> ticker,
                               added_shares |-> shares - before,
                               total_shares |-> shares] >>
                      ELSE <<>>
         IN  new \o added \o NewPositions_if_if(current, past, i + 1)

\* the first loop of get_portfolio_changes: new positions and additions
RECURSIVE NewPositions(_, _, _)
NewPositions(current, past, i) ==
    IF i > Len(current) THEN <<>>
    ELSE LET ticker == current[i][1]
             shares == current[i][2]
             entry == IF ~DictHas(past, ticker)
                      THEN << [action |-> "NEW POSITION", ticker |-> ticker,
                               shares |-> shares] >>
                      ELSE IF shares > DictGet(past, ticker)
                      THEN << [action |-> "ADDED TO", ticker |-> ticker,
                               added_shares |-> shares - DictGet(past, ticker),
                               total_shares |-> shares] >>
                      ELSE <<>>
         IN  entry \o NewPositions(current, past, i + 1)

\* a reduced position reported with the share count it had
RECURSIVE SoldPositions_past_count(_, _, _)
SoldPositions_past_count(current, past, i) ==
    IF i > Len(past) THEN <<>>
    ELSE LET ticker == past[i][1]
             shares == past[i][2]
             entry == IF ~DictHas(current, ticker)
                      THEN << [action |-> "SOLD", ticker |-> ticker,
                               shares |-> shares] >>
                      ELSE IF shares > DictGet(current, ticker)
                      THEN << [action |-> "REDUCED", ticker |-> ticker,
                               reduced_shares |-> shares - DictGet(current, ticker),
                               remaining_shares |-> shares] >>
                      ELSE <<>>
         IN  entry \o SoldPositions_past_count(current, past, i + 1)

\* the second loop: sold and reduced positions
RECURSIVE SoldPositions(_, _, _)
SoldPositions(current, past, i) ==
    IF i > Len(past) THEN <<>>
    ELSE LET ticker == past[i][1]
             shares == past[i][2]
             entry == IF ~DictHas(current, ticker)
                      THEN << [action |-> "SOLD", ticker |-> ticker,
                               shares |-> shares] >>
                      ELSE IF shares > DictGet(current, ticker)
                      THEN << [action |-> "REDUCED", ticker |-> ticker,
                               reduced_shares |-> shares - DictGet(current, ticker),
                               remaining_shares |-> DictGet(current, ticker)] >>
                      ELSE <<>>
         IN  entry \o SoldPositions(current, past, i + 1)

\* the baseline taken days (not days + 1) stored dates back
get_portfolio_changes_short_slice(self, days) ==
    LET hist == mem[self].portfolio_history
        dates == SliceTo(DictKeys(SortedDesc(hist)), days)
    IN  IF Len(dates) < 2 THEN <<>>
        ELSE LET current == DictGet(hist, dates[1]).portfolio
                 past == DictGet(hist, dates[Len(dates)]).portfolio
             IN  NewPositions(current, past, 1) \o SoldPositions(current, past, 1)

\* a lone snapshot compared with an empty portfolio
get_portfolio_changes_first_run(self, days) ==
    LET hist == mem[self].portfolio_history
        dates == SliceTo(DictKeys(SortedDesc(hist)), days + 1)
    IN  IF Len(dates) < 1 THEN <<>>
        ELSE LET current == DictGet(hist, dates[1]).portfolio
                 past == IF Len(dates) < 2 THEN EmptyDict
                         ELSE DictGet(hist, dates[Len(dates)]).portfolio
             IN  NewPositions(current, past, 1) \o SoldPositions(current, past, 1)

get_portfolio_changes(self, days) ==
    LET hist == mem[self].portfolio_history
        dates == SliceTo(DictKeys(SortedDesc(hist)), days + 1)
    IN  IF Len(dates) < 2 THEN <<>>
        ELSE LET current == DictGet(hist, dates[1]).portfolio
                 past == DictGet(hist, dates[Len(dates)]).portfolio
             IN  NewPositions(current, past, 1) \o SoldPositions(current, past, 1)

\* a call that returns the value, and a call that raises the exception
Return(value) == [ok |-> TRUE, value |-> value]
Raise(exception) == [ok |-> FALSE, exception |-> exception]

\* the loops of calculate_recommendation_outcomes from the record <<i, j>> on,
\* in the order the dicts hold the records
RECURSIVE OutcomesFrom(_, _, _, _)
OutcomesFrom(recs, i, j, current_prices) ==
    IF i > Len(recs) THEN Return(<<>>)
    ELSE IF j > Len(recs[i][2].stocks) THEN OutcomesFrom(recs, i + 1, 1, current_prices)
    ELSE LET date_str == recs[i][1]
             ticker == recs[i][2].stocks[j][1]
             rec == recs[i][2].stocks[j][2]
             recommended_price == rec.price
             \* current_prices.get(ticker), None as 0: both are falsy
             current_price == IF ticker \in DOMAIN current_prices
                              THEN current_prices[ticker] ELSE 0
             rest == OutcomesFrom(recs, i, j + 1, current_prices)
             gain_pct == << (current_price - recommended_price) * 100,
                            recommended_price >>
         IN  IF current_price = 0 THEN rest
             ELSE IF recommended_price = 0 THEN Raise("ZeroDivisionError")
             ELSE IF ~rest.ok THEN rest
             ELSE Return(<< [date |-> date_str, ticker |-> ticker,
                             action |-> rec.action,
                             recommended_price |-> recommended_price,
                             current_price |-> current_price,
                             gain_pct |-> gain_pct,
                             days_ago |-> now[1] - strptime(date_str)[1],
                             status |-> IF gain_pct[1] * gain_pct[2] > 0
                                        THEN "winning" ELSE "losing"] >>
                         \o rest.value)

\* 'winning' also for a gain of exactly 0
calculate_recommendation_outcomes_zero_wins(self, current_prices) ==
    LET got == OutcomesFrom(mem[self].recommendations, 1, 1, current_prices)
    IN  IF ~got.ok THEN got
        ELSE Return([i \in 1..Len(got.value) |->
                        [got.value[i] EXCEPT !.status =
                            IF got.value[i].gain_pct[1] * got.value[i].gain_pct[2] >= 0
                            THEN "winning" ELSE "losing"]])

\* gain_pct is kept as the exact quotient <<numerator, denominator>>
calculate_recommendation_outcomes(self, current_prices) ==
    OutcomesFrom(mem[self].recommendations, 1, 1, current_prices)

\* the action compared without regard to case
get_ignored_recommendations_any_case(self, current_portfolio, days) ==
    SelectSeq(get_recent_recommendations(self, NoTicker, days),
              LAMBDA rec : /\ rec.rec.action \in {"BUY", "buy"}
                           /\ rec.ticker \notin current_portfolio)

\* current_portfolio: the tickers the caller's portfolio holds
get_ignored_recommendations(self, current_portfolio, days) ==
    SelectSeq(get_recent_recommendations(self, NoTicker, days),
              LAMBDA rec : /\ rec.rec.action = "BUY"
                           /\ rec.ticker \notin current_portfolio)

\* the recommendations of every ticker counted
should_recommend_again_any_ticker(self, ticker, days_since_last, price_change_threshold) ==
    LET recent == get_recent_recommendations(self, NoTicker, days_since_last)
    IN  IF recent = <<>> THEN <<TRUE, "First time recommending">>
        ELSE <<FALSE, "Already recommended " \o ToString(Len(recent))
                         \o " times in last " \o ToString(days_since_last) \o " days">>

\* the price check the comment leaves to the caller, made here: a ticker
\* whose recommended price moved by more than the threshold (in percent)
\* within the window is allowed again
should_recommend_again_price_check(self, ticker, days_since_last, price_change_threshold) ==
    LET recent == get_recent_recommendations(self, ticker, days_since_last)
    IN  IF recent = <<>> THEN <<TRUE, "First time recommending">>
        ELSE LET last_price == recent[1].rec.price
                 first_price == recent[Len(recent)].rec.price
                 moved == IF last_price >= first_price THEN last_price - first_price
                          ELSE first_price - last_price
             IN  IF moved * 100 > price_change_threshold * first_price
                 THEN <<TRUE, "Price changed significantly">>
                 ELSE <<FALSE, "Already recommended " \o ToString(Len(recent))
                                  \o " times in last " \o ToString(days_since_last)
                                  \o " days">>

\* (should_recommend, reason); last_price is read and price_change_threshold
\* is accepted, and neither is used
should_recommend_again(self, ticker, days_since_last, price_change_threshold) ==
    LET recent == get_recent_recommendations(self, ticker, days_since_last)
    IN  IF recent = <<>> THEN <<TRUE, "First time recommending">>
        ELSE LET last_rec == recent[1]
                 last_price == last_rec.rec.price
             IN  <<FALSE, "Already recommended " \o ToString(Len(recent))
                             \o " times in last " \o ToString(days_since_last) \o " days">>

\* sum(o['gain_pct'] for o in outcomes), as an exact quotient
RECURSIVE SumGain(_, _)
SumGain(outcomes, i) ==
    IF i > Len(outcomes) THEN <<0, 1>>
    ELSE LET g == outcomes[i].gain_pct
             rest == SumGain(outcomes, i + 1)
         IN  <<g[1] * rest[2] + rest[1] * g[2], g[2] * rest[2]>>

\* quotient > k and quotient < k
GainAbove(g, k) == (g[1] - k * g[2]) * g[2] > 0
GainBelow(g, k) == (g[1] - k * g[2]) * g[2] < 0

\* win_rate as a fraction of 1
generate_memory_summary_win_ratio(self, current_portfolio, current_prices) ==
    LET recent_recs == get_recent_recommendations(self, NoTicker, SummaryWindow)
        outcomes == calculate_recommendation_outcomes(self, current_prices)
        ignored == get_ignored_recommendations(self, current_portfolio, SummaryWindow)
    IN  IF ~outcomes.ok THEN outcomes
        ELSE LET n == Len(outcomes.value)
                 winning == SelectSeq(outcomes.value, LAMBDA o : GainAbove(o.gain_pct, 0))
                 total == SumGain(outcomes.value, 1)
                 win_rate == IF n # 0 THEN <<Len(winning), n>> ELSE <<0, 1>>
                 avg_gain == IF n # 0 THEN <<total[1], total[2] * n>> ELSE <<0, 1>>
             IN  Return([recent_recommendations_count |-> Len(recent_recs),
                         performance |->
                            [total_calls |-> n,
                             win_rate |-> win_rate,
                             avg_gain |-> avg_gain,
                             winning_trades |->
                                SelectSeq(outcomes.value, LAMBDA o : GainAbove(o.gain_pct, 5)),
                             losing_trades |->
                                SelectSeq(outcomes.value, LAMBDA o : GainBelow(o.gain_pct, 0 - 5))],
                         ignored_stocks |-> SliceTo(ignored, 5),
                         repeated_recommendations |-> _find_repeated_stocks(recent_recs)])

\* the ignored recommendations cut to three, as the prompt prints them
generate_memory_summary_top_three(self, current_portfolio, current_prices) ==
    LET recent_recs == get_recent_recommendations(self, NoTicker, SummaryWindow)
        outcomes == calculate_recommendation_outcomes(self, current_prices)
        ignored == get_ignored_recommendations(self, current_portfolio, SummaryWindow)
    IN  IF ~outcomes.ok THEN outcomes
        ELSE LET n == Len(outcomes.value)
                 winning == SelectSeq(outcomes.value, LAMBDA o : GainAbove(o.gain_pct, 0))
                 total == SumGain(outcomes.value, 1)
                 win_rate == IF n # 0 THEN <<Len(winning) * 100, n>> ELSE <<0, 1>>
                 avg_gain == IF n # 0 THEN <<total[1], total[2] * n>> ELSE <<0, 1>>
             IN  Return([recent_recommendations_count |-> Len(recent_recs),
                         performance |->
                            [total_calls |-> n,
                             win_rate |-> win_rate,
                             avg_gain |-> avg_gain,
                             winning_trades |->
                                SelectSeq(outcomes.value, LAMBDA o : GainAbove(o.gain_pct, 5)),
                             losing_trades |->
                                SelectSeq(outcomes.value, LAMBDA o : GainBelow(o.gain_pct, 0 - 5))],
                         ignored_stocks |-> SliceTo(ignored, 3),
                         repeated_recommendations |-> _find_repeated_stocks(recent_recs)])

\* an exception of calculate_recommendation_outcomes leaves the call; win_rate
\* and avg_gain are kept as exact quotients
generate_memory_summary(self, current_portfolio, current_prices) ==
    LET recent_recs == get_recent_recommendations(self, NoTicker, SummaryWindow)
        outcomes == calculate_recommendation_outcomes(self, current_prices)
        ignored == get_ignored_recommendations(self, current_portfolio, SummaryWindow)
    IN  IF ~outcomes.ok THEN outcomes
        ELSE LET n == Len(outcomes.value)
                 winning == SelectSeq(outcomes.value, LAMBDA o : GainAbove(o.gain_pct, 0))
                 total == SumGain(outcomes.value, 1)
                 win_rate == IF n # 0 THEN <<Len(winning) * 100, n>> ELSE <<0, 1>>
                 avg_gain == IF n # 0 THEN <<total[1], total[2] * n>> ELSE <<0, 1>>
             IN  Return([recent_recommendations_count |-> Len(recent_recs),
                         performance |->
                            [total_calls |-> n,
                             win_rate |-> win_rate,
                             avg_gain |-> avg_gain,
                             winning_trades |->
                                SelectSeq(outcomes.value, LAMBDA o : GainAbove(o.gain_pct, 5)),
                             losing_trades |->
                                SelectSeq(outcomes.value, LAMBDA o : GainBelow(o.gain_pct, 0 - 5))],
                         ignored_stocks |-> SliceTo(ignored, 5),
                         repeated_recommendations |-> _find_repeated_stocks(recent_recs)])

\* the query methods of the ledger
Queries ==
    {"get_recent_recommendations", "count_recommendations", "was_recommended_recently",
     "get_portfolio_changes", "calculate_recommendation_outcomes",
     "get_ignored_recommendations", "should_recommend_again", "generate_memory_summary"}

\* the exception a call of the query raises, None when it returns
QueryRaises(self, q, current_portfolio, current_prices) ==
    LET got == IF q = "calculate_recommendation_outcomes"
               THEN calculate_recommendation_outcomes(self, current_prices)
               ELSE IF q = "generate_memory_summary"
               THEN generate_memory_summary(self, current_portfolio, current_prices)
               ELSE Return(<<>>)
    IN  IF got.ok THEN "None" ELSE got.exception

\* a job calls a query: no query method assigns to a table of the ledger or
\* opens a file for writing
Query(self, q, current_portfolio, current_prices) ==
    /\ outcome' = [fault |-> "none",
                   raised |-> QueryRaises(self, q, current_portfolio, current_prices),
                   writes |-> 0]
    /\ UNCHANGED <<now, mem, disk, last_call, resaved>>

(***************************************************************************)
(* Specifications                                                          *)
(***************************************************************************)
RecNext ==
    \/ Tick(0..MaxDay, {0, 1})
    \/ Construct("a")
    \/ \E t \in Tickers, r \in RecInputs :
          save_recommendation("a", t, r.action, r.price, r.reason, "morning") /\ WithinMaxRecs("a")

\* the recommendations table, written by one job at a time
SpecRec == Init /\ [][RecNext]_vars

WeekNext ==
    \/ Tick(WeekDays, {0, 1})
    \/ Construct("a")
    \/ \E t \in Tickers :
          save_recommendation("a", t, "BUY", 50, "dip", "morning") /\ WithinMaxRecs("a")

\* the recommendations table over more than a week, one recommendation
\* repeated
SpecWeek == Init /\ [][WeekNext]_vars

\* the holdings a caller passes, the tickers listed in the order of the
\* caller's portfolio file: XYZ unlisted or with any share count, AAPL
\* unlisted or with a positive share count
Holdings ==
    { xyz \o aapl :
        xyz \in {<<>>} \cup {<< <<"XYZ", n>> >> : n \in Shares},
        aapl \in {<<>>} \cup {<< <<"AAPL", n>> >> : n \in Shares \ {0}} }

RECURSIVE TotalShares(_, _)
TotalShares(portfolio, i) ==
    IF i > Len(portfolio) THEN 0 ELSE portfolio[i][2] + TotalShares(portfolio, i + 1)

\* the caller's cash and total value for its holdings
CashFor(portfolio) == 1000 - 20 * TotalShares(portfolio, 1)
ValueFor(portfolio) == 1000 + 5 * TotalShares(portfolio, 1)

PortNext ==
    \/ Tick(0..MaxDay, {1})
    \/ Construct("a")
    \/ \E h \in Holdings :
          save_portfolio_snapshot("a", h, CashFor(h), ValueFor(h))

\* the portfolio history, written by one job at a time
SpecPort == Init /\ [][PortNext]_vars

\* the actions the callers emit, in the spellings they use
JobActions == {"BUY", "buy", "SELL"}

SpellNext ==
    \/ Tick(0..MaxDay, {1})
    \/ Construct("a")
    \/ \E t \in Tickers, act \in JobActions :
          save_recommendation("a", t, act, 50, "dip", "morning") /\ WithinMaxRecs("a")

\* the recommendations table, its actions in every spelling
SpecSpell == Init /\ [][SpellNext]_vars

JobsNext ==
    \/ Tick(0..MaxDay, {1})
    \/ Construct("a")
    \/ \E t \in Tickers, s \in Sessions :
          save_recommendation("a", t, "BUY", 50, "dip", s) /\ WithinMaxRecs("a")

\* the recommendations table, written by the morning and the afternoon job
SpecJobs == Init /\ [][JobsNext]_vars

\* the holdings, and the events of the market context, the job passes
SmallHoldings == {<< <<"AAPL", 5>> >>}
Events == {<<"rate cut">>}

\* one job on one day: a write is completed only on a file that can be opened
FailNext ==
    \/ Construct("a")
    \/ \E t \in Tickers :
          /\ disk.recommendations.readable
          /\ save_recommendation("a", t, "BUY", 50, "dip", "morning") /\ WithinMaxRecs("a")
    \/ \E t \in Tickers, fault \in Faults :
          save_recommendation_write_error("a", t, "BUY", 50, "dip", "morning", fault) /\ WithinMaxRecs("a")
    \/ \E h \in SmallHoldings :
          /\ disk.portfolio_history.readable
          /\ save_portfolio_snapshot("a", h, CashFor(h), ValueFor(h))
    \/ \E h \in SmallHoldings, fault \in Faults :
          save_portfolio_snapshot_write_error("a", h, CashFor(h), ValueFor(h), fault)
    \/ \E ev \in Events :
          /\ disk.market_context.readable
          /\ save_market_context("a", 20000, 70, 1, ev)
    \/ \E ev \in Events, fault \in Faults :
          save_market_context_write_error("a", 20000, 70, 1, ev, fault)

\* the three tables on a store whose writes can fail
SpecFail == Init /\ [][FailNext]_vars

\* a file that was written whole is deleted, loses its read permission, is
\* cut short, or is overwritten with bytes that are no JSON
Damage(tb) ==
    /\ disk[tb].exists /\ disk[tb].readable /\ WellFormed(disk[tb].text)
    /\ \E file \in {NoFile, [disk[tb] EXCEPT !.readable = FALSE],
                    [disk[tb] EXCEPT !.text = <<[t |-> "?"]>>]}
                     \cup {[disk[tb] EXCEPT !.text = SubSeq(@, 1, n)] :
                              n \in 0..(Len(disk[tb].text) - 1)} :
          disk' = [disk EXCEPT ![tb] = file]
    /\ UNCHANGED <<now, mem, last_call, resaved, outcome>>

\* one job writes on one day, the files are damaged behind its back, and
\* another job constructs its ledger from them
LoadNext ==
    \/ Construct("b")
    \/ \E tb \in Tables : Damage(tb)
    \/ /\ disk.recommendations.readable
       /\ save_recommendation("a", "AAPL", "BUY", 50, "dip", "morning") /\ WithinMaxRecs("a")
    \/ \E h \in SmallHoldings :
          /\ disk.portfolio_history.readable
          /\ save_portfolio_snapshot("a", h, CashFor(h), ValueFor(h))
    \/ \E ev \in Events :
          /\ disk.market_context.readable
          /\ save_market_context("a", 20000, 70, 1, ev)

SpecLoad == Init /\ [][LoadNext]_vars

OrderNext ==
    \/ SetClock(0..MaxDay, {0, 1})
    \/ Construct("a")
    \/ \E t \in Tickers :
          save_recommendation("a", t, "BUY", 50, "dip", "morning") /\ WithinMaxRecs("a")

\* the recommendations table with its dates inserted, and loaded, in any order
SpecOrder == Init /\ [][OrderNext]_vars

TwinNext ==
    \/ Tick(0..MaxDay, {1})
    \/ \E p \in Prices :
          save_recommendation("a", "AAPL", "BUY", p, "dip", "morning") /\ WithinMaxRecs("a")
    \/ save_recommendation("a", "XYZ", "BUY", 50, "dip", "morning") /\ WithinMaxRecs("a")
    \/ \E t \in Tickers :
          save_recommendation("b", t, "BUY", 50, "dip", "morning") /\ WithinMaxRecs("b")

\* two ledgers that record the same tickers, one of them at a price that
\* does not move
SpecTwin == Init /\ [][TwinNext]_vars

TwoNext ==
    \/ Tick(0..MaxDay, {1})
    \/ \E i \in Instances : Construct(i)
    \/ \E i \in Instances, t \in Tickers :
          save_recommendation(i, t, "BUY", 50, "dip", "morning") /\ WithinMaxRecs(i)

\* two ledgers alive at the same time over the same files, each constructed
\* by its own job
SpecTwo == Init /\ [][TwoNext]_vars

ManyNext ==
    \/ Tick(0..MaxDay, {1})
    \/ Construct("a")
    \/ \E t \in Tickers :
          save_recommendation("a", t, "BUY", 50, "dip", "morning")

\* every ticker recommended on every day: the table grows to as many
\* records as there are days and tickers
SpecMany == Init /\ [][ManyNext]_vars

\* the three tables written, with writes that can fail, and queried
FrameNext ==
    \/ Construct("a")
    \/ /\ disk.recommendations.readable
       /\ save_recommendation("a", "AAPL", "BUY", 50, "dip", "morning")
    \/ \E fault \in Faults :
          save_recommendation_write_error("a", "AAPL", "BUY", 50, "dip", "morning", fault)
    \/ \E h \in SmallHoldings :
          /\ disk.portfolio_history.readable
          /\ save_portfolio_snapshot("a", h, CashFor(h), ValueFor(h))
    \/ \E h \in SmallHoldings, fault \in Faults :
          save_portfolio_snapshot_write_error("a", h, CashFor(h), ValueFor(h), fault)
    \/ \E ev \in Events :
          /\ disk.market_context.readable
          /\ save_market_context("a", 20000, 70, 1, ev)
    \/ \E ev \in Events, fault \in Faults :
          save_market_context_write_error("a", 20000, 70, 1, ev, fault)
    \/ \E q \in Queries : Query("a", q, {"AAPL"}, [t \in Tickers |-> 60])

SpecFrame == Init /\ [][FrameNext]_vars

ReadNext ==
    \/ Tick(0..MaxDay, {1})
    \/ Construct("a")
    \/ Construct_read_error("a", {"recommendations"})
    \/ \E t \in Tickers :
          save_recommendation("a", t, "BUY", 50, "dip", "morning") /\ WithinMaxRecs("a")

\* one job after another constructs the ledger and records; the read of the
\* recommendations file can fail
SpecRead == Init /\ [][ReadNext]_vars

(***************************************************************************)
(* Properties                                                              *)
(***************************************************************************)
\* the window sizes the properties range over
Windows == 0..(MaxDay + 1)

\* the day number a stored date string names
DayOf(date_str) ==
    LET day == date_str[9] * 10 + date_str[10]
    IN  IF date_str[6] = 1 /\ date_str[7] = 2 THEN day - 28 ELSE day + 3

\* the number of items of a dict that carry the key
KeyCount(d, k) == Cardinality({i \in 1..Len(d) : d[i][1] = k})

\* every (date, ticker) record of a recommendations table, one per item
StoredRecs(recs) ==
    { [date |-> recs[i][1], ticker |-> recs[i][2].stocks[j][1],
       rec |-> recs[i][2].stocks[j][2]] :
        <<i, j>> \in {p \in (1..Len(recs)) \X (1..MaxRecs) :
                         p[2] <= Len(recs[p[1]][2].stocks)} }

OfTicker(records, ticker) ==
    IF ticker = NoTicker THEN records ELSE {r \in records : r.ticker = ticker}

\* the records of a table show the arguments v for the key (date, ticker),
\* once, and so does every query
ShowsLast(recs, date, ticker, v) ==
    /\ KeyCount(recs, date) = 1
    /\ KeyCount(DictGet(recs, date).stocks, ticker) = 1
    /\ LET rec == DictGet(DictGet(recs, date).stocks, ticker)
       IN  rec.action = v.action /\ rec.price = v.price /\ rec.reason = v.reason

\* C1: last write wins per (date, ticker): the stored record of a key, in
\* memory and in the file, and every record a query returns for that key,
\* show the action, price and reason of the last save_recommendation call
\* made for the key, and the key holds exactly one record
C1_LastWriteWins ==
    /\ \A n \in 1..Len(last_call.recommendations) :
        LET date == last_call.recommendations[n][1][1]
            ticker == last_call.recommendations[n][1][2]
            v == last_call.recommendations[n][2]
        IN  /\ ShowsLast(mem["a"].recommendations, date, ticker, v)
            /\ ShowsLast(_load_json(disk.recommendations), date, ticker, v)
    /\ \A tk \in Tickers \cup {NoTicker}, w \in Windows :
          LET got == get_recent_recommendations("a", tk, w)
          IN  \A n \in 1..Len(last_call.recommendations) :
                LET key == last_call.recommendations[n][1]
                    v == last_call.recommendations[n][2]
                    hits == {i \in 1..Len(got) :
                                got[i].date = key[1] /\ got[i].ticker = key[2]}
                IN  /\ Cardinality(hits) <= 1
                    /\ \A i \in hits :
                          /\ got[i].rec.action = v.action
                          /\ got[i].rec.price = v.price
                          /\ got[i].rec.reason = v.reason

\* a key written again after a later key of its date was written (it is
\* listed first and stamped later), and returned by a query
C1_Witness ==
    \E n \in 1..Len(mem["a"].recommendations) :
        LET date == mem["a"].recommendations[n][1]
            stocks == mem["a"].recommendations[n][2].stocks
            got == get_recent_recommendations("a", NoTicker, 1)
        IN  /\ Len(stocks) = 2
            /\ DtLess(stocks[2][2].timestamp, stocks[1][2].timestamp)
            /\ \E i \in 1..Len(got) :
                  got[i].date = date /\ got[i].ticker = stocks[1][1]

\* the stored records the query is to return: those of the ticker whose
\* date, as the midnight that begins it, is not before the cutoff
InWindow(self, ticker, days) ==
    { r \in OfTicker(StoredRecs(mem[self].recommendations), ticker) :
        \/ DayOf(r.date) > now[1] - days
        \/ (DayOf(r.date) = now[1] - days /\ now[2] = 0) }

\* the stored records of the closed interval of dates [today - days, today]
InClosedInterval(self, ticker, days) ==
    { r \in OfTicker(StoredRecs(mem[self].recommendations), ticker) :
        now[1] - days <= DayOf(r.date) /\ DayOf(r.date) <= now[1] }

Returns(got, records) ==
    /\ Range(got) = records
    /\ Len(got) = Cardinality(records)

\* C2, as claimed: get_recent_recommendations returns exactly the stored
\* records dated within [today - windowDays, today], both ends inclusive
C2_ClosedInterval ==
    \A tk \in Tickers \cup {NoTicker}, w \in Windows :
        Returns(get_recent_recommendations("a", tk, w), InClosedInterval("a", tk, w))

\* C2, amended: get_recent_recommendations returns exactly the stored records
\* (of the ticker, when one is given) whose date d has its midnight at or
\* after now - windowDays: today - windowDays < d, and also
\* d = today - windowDays when the clock reads exactly midnight
C2_HalfOpenWindow ==
    \A tk \in Tickers \cup {NoTicker}, w \in Windows :
        Returns(get_recent_recommendations("a", tk, w), InWindow("a", tk, w))

\* after midnight, a record dated today - windowDays is left out while a
\* later record of the same ticker is returned
C2_Witness ==
    /\ now[2] = 1
    /\ \E tk \in Tickers, w \in Windows \ {0} :
          /\ \E r \in StoredRecs(mem["a"].recommendations) :
                r.ticker = tk /\ DayOf(r.date) = now[1] - w
          /\ Len(get_recent_recommendations("a", tk, w)) = 1

\* the days on which the table holds a record of the ticker
DaysOf(self, ticker) ==
    {DayOf(r.date) : r \in OfTicker(StoredRecs(mem[self].recommendations), ticker)}

\* C3, as claimed: with a ticker recommended on day D and on day D + 7 only,
\* get_recent_recommendations(ticker, 7) on day D + 7 returns exactly the
\* record of D + 7, and the 7-day tally does not report the ticker as repeated
C3_WeekOldExcluded ==
    \A t \in Tickers :
        DaysOf("a", t) = {now[1] - SummaryWindow, now[1]}
        => LET got == get_recent_recommendations("a", t, SummaryWindow)
           IN  /\ Len(got) = 1
               /\ got[1].date = strftime(now)
               /\ ~DictHas(repeated_recommendations("a"), t)

\* C4: count_recommendations is the length of get_recent_recommendations,
\* and was_recommended_recently holds exactly when the count is positive
C4_CountAndRecently ==
    \A t \in Tickers, d \in Windows :
        LET count == count_recommendations("a", t, d)
        IN  /\ count = Len(get_recent_recommendations("a", t, d))
            /\ was_recommended_recently("a", t, d) <=> (count > 0)

\* one ticker counted twice in a window in which the other is not counted
C4_Witness ==
    \E t \in Tickers, u \in Tickers, d \in Windows :
        /\ count_recommendations("a", t, d) = 1
        /\ count_recommendations("a", t, d + 1) = 2
        /\ ~was_recommended_recently("a", u, d + 1)

\* a dict as a function of its keys
AsMap(d) == [k \in Range(DictKeys(d)) |-> DictGet(d, k)]

\* the days for which the portfolio history holds a snapshot
SnapDays(self) == {DayOf(k) : k \in Range(DictKeys(mem[self].portfolio_history))}

SnapshotOn(hist, day) == DictGet(hist, strftime(<<day, 0>>))

Max(S) == CHOOSE x \in S : \A y \in S : y <= x
Min(S) == CHOOSE x \in S : \A y \in S : x <= y

\* the latest stored day, and the oldest of the days + 1 latest stored days
LatestDay(self) == Max(SnapDays(self))
BaselineDay(self, days) ==
    Min({d \in SnapDays(self) :
            Cardinality({e \in SnapDays(self) : e > d}) <= days})

\* the holdings get_portfolio_changes is to compare
CurrentHoldings(self) ==
    AsMap(SnapshotOn(mem[self].portfolio_history, LatestDay(self)).portfolio)
PastHoldings(self, days) ==
    AsMap(SnapshotOn(mem[self].portfolio_history, BaselineDay(self, days)).portfolio)

\* C5: the snapshot stored for a date, in memory and as a new instance loads
\* it from the file, has the holdings, cash and total_value of the last
\* save_portfolio_snapshot call of that date, and the date has one snapshot
C5_SnapshotRoundTrip ==
    \A n \in 1..Len(last_call.portfolio_history) :
        LET date == last_call.portfolio_history[n][1]
            v == last_call.portfolio_history[n][2]
        IN  \A hist \in {mem["a"].portfolio_history, _load_json(disk.portfolio_history)} :
                /\ KeyCount(hist, date) = 1
                /\ DictGet(hist, date).portfolio = v.portfolio
                /\ DictGet(hist, date).cash = v.cash
                /\ DictGet(hist, date).total_value = v.total_value

\* a date written twice, among the snapshots of several dates
C5_Witness ==
    /\ resaved
    /\ Len(_load_json(disk.portfolio_history)) >= 2

\* the entries of a result about one ticker, by action
EntriesOf(changes, action, ticker) ==
    {i \in 1..Len(changes) : changes[i].action = action /\ changes[i].ticker = ticker}

NewPositionOnly(changes, X, n) ==
    /\ Cardinality(EntriesOf(changes, "NEW POSITION", X)) = 1
    /\ \A i \in EntriesOf(changes, "NEW POSITION", X) : changes[i].shares = n
    /\ EntriesOf(changes, "ADDED TO", X) = {}

\* the share count of a ticker, 0 when the holdings do not list it
SharesIn(holdings, X) == IF X \in DOMAIN holdings THEN holdings[X] ELSE 0

\* C6, as claimed: a ticker that goes from 0 shares to n > 0 shares between
\* the compared snapshots gets exactly one NEW POSITION entry with shares = n
\* and no ADDED TO entry
C6_ZeroToPositive ==
    \A days \in Windows \ {0}, X \in Tickers :
        (/\ Cardinality(SnapDays("a")) >= 2
         /\ SharesIn(PastHoldings("a", days), X) = 0
         /\ SharesIn(CurrentHoldings("a"), X) > 0)
        => NewPositionOnly(get_portfolio_changes("a", days), X,
                           CurrentHoldings("a")[X])

\* C6, amended: a ticker that the past snapshot does not list and that has
\* n > 0 shares in the current one gets exactly one NEW POSITION entry with
\* shares = n and no ADDED TO entry
C6_AbsentToPositive ==
    \A days \in Windows \ {0}, X \in Tickers :
        (/\ Cardinality(SnapDays("a")) >= 2
         /\ X \notin DOMAIN PastHoldings("a", days)
         /\ SharesIn(CurrentHoldings("a"), X) > 0)
        => NewPositionOnly(get_portfolio_changes("a", days), X,
                           CurrentHoldings("a")[X])

\* one ticker newly held, the other held before and added to
C6_Witness ==
    \E X \in Tickers, Y \in Tickers :
        /\ Cardinality(SnapDays("a")) >= 2
        /\ X \notin DOMAIN PastHoldings("a", 1)
        /\ SharesIn(CurrentHoldings("a"), X) > 0
        /\ EntriesOf(get_portfolio_changes("a", 1), "NEW POSITION", X) # {}
        /\ EntriesOf(get_portfolio_changes("a", 1), "ADDED TO", Y) # {}

\* the entries the classification rules give for two holdings
ExpectedChanges(current, past) ==
    {[action |-> "NEW POSITION", ticker |-> t, shares |-> current[t]] :
        t \in DOMAIN current \ DOMAIN past}
    \cup {[action |-> "ADDED TO", ticker |-> t,
           added_shares |-> current[t] - past[t], total_shares |-> current[t]] :
        t \in {u \in DOMAIN current \cap DOMAIN past : current[u] > past[u]}}
    \cup {[action |-> "SOLD", ticker |-> t, shares |-> past[t]] :
        t \in DOMAIN past \ DOMAIN current}
    \cup {[action |-> "REDUCED", ticker |-> t,
           reduced_shares |-> past[t] - current[t], remaining_shares |-> current[t]] :
        t \in {u \in DOMAIN current \cap DOMAIN past : past[u] > current[u]}}

\* C7: get_portfolio_changes returns exactly the entries of the five rules
\* (new, added to, sold, reduced, unchanged) for the tickers of the two
\* compared snapshots, each once, and no other entry
C7_Classification ==
    \A days \in Windows :
        Cardinality(SnapDays("a")) >= 2
        => Returns(get_portfolio_changes("a", days),
                   ExpectedChanges(CurrentHoldings("a"), PastHoldings("a", days)))

\* a reduced and an unchanged position in one comparison
C7_Witness ==
    \E X \in Tickers, Y \in Tickers :
        /\ Cardinality(SnapDays("a")) >= 2
        /\ EntriesOf(get_portfolio_changes("a", 1), "REDUCED", X) # {}
        /\ Y \in DOMAIN CurrentHoldings("a")
        /\ Y \in DOMAIN PastHoldings("a", 1)
        /\ CurrentHoldings("a")[Y] = PastHoldings("a", 1)[Y]
        /\ Len(get_portfolio_changes("a", 1)) = 1

\* the values of windowDays the boundary is checked for
ChangeWindows == ((0 - 2)..0) \cup Windows

\* C8: with fewer than two stored snapshots get_portfolio_changes returns
\* the empty list, for every windowDays
C8_FewerThanTwo ==
    Len(mem["a"].portfolio_history) < 2
    => \A days \in ChangeWindows : get_portfolio_changes("a", days) = <<>>

\* a single stored snapshot that lists holdings
C8_Witness ==
    /\ Len(mem["a"].portfolio_history) = 1
    /\ mem["a"].portfolio_history[1][2].portfolio # <<>>

CurrentPrices == UNION {[S -> {0, 60}] : S \in SUBSET Tickers}

\* C10, as claimed: calculate_recommendation_outcomes raises nothing and
\* returns one outcome for each stored record whose ticker is a key of
\* current_prices, whatever the value of that entry, and no other outcome
C10_OneOutcomePerPricedRecord ==
    \A cp \in CurrentPrices :
        LET got == calculate_recommendation_outcomes("a", cp)
            priced == {r \in StoredRecs(mem["a"].recommendations) :
                          r.ticker \in DOMAIN cp}
        IN  /\ got.ok
            /\ Len(got.value) = Cardinality(priced)
            /\ \A r \in priced :
                  Cardinality({i \in 1..Len(got.value) :
                                  /\ got.value[i].date = r.date
                                  /\ got.value[i].ticker = r.ticker}) = 1

\* the price lookups with no falsy entry: a lower, an equal and a higher price
TruthyPrices == UNION {[S -> {40, 50, 60}] : S \in SUBSET Tickers}

\* the stored record an outcome is about
RecordOf(self, o) ==
    DictGet(DictGet(mem[self].recommendations, o.date).stocks, o.ticker)

\* C11: every outcome has gain_pct = (current_price - recommended_price) /
\* recommended_price * 100, for the stored price of its record and the
\* caller's price of its ticker, and status 'winning' exactly when gain_pct
\* is positive, 'losing' otherwise; 50 -> 60 gives 20 and 'winning'
C11_GainAndStatus ==
    \A cp \in TruthyPrices :
        LET got == calculate_recommendation_outcomes("a", cp)
        IN  got.ok =>
              \A i \in 1..Len(got.value) :
                  LET o == got.value[i]
                      rp == RecordOf("a", o).price
                      c == cp[o.ticker]
                  IN  /\ o.recommended_price = rp
                      /\ o.current_price = c
                      /\ rp # 0
                      /\ o.gain_pct[2] # 0
                      /\ o.gain_pct[1] * rp = (c - rp) * 100 * o.gain_pct[2]
                      /\ o.status \in {"winning", "losing"}
                      /\ (o.status = "winning") <=> ((c - rp) * rp > 0)
                      /\ (rp = 50 /\ c = 60)
                            => (o.gain_pct[1] = 20 * o.gain_pct[2]
                                  /\ o.status = "winning")

\* two outcomes of one call: a gain of 20, winning, and a gain of 0, losing
C11_Witness ==
    \E cp \in TruthyPrices :
        LET got == calculate_recommendation_outcomes("a", cp)
        IN  /\ got.ok
            /\ \E i, j \in 1..Len(got.value) :
                  /\ got.value[i].gain_pct[1] = 20 * got.value[i].gain_pct[2]
                  /\ got.value[i].status = "winning"
                  /\ got.value[j].gain_pct[1] = 0
                  /\ got.value[j].status = "losing"

\* C12: get_ignored_recommendations(current_portfolio, days) holds exactly
\* the records of get_recent_recommendations(days=days) whose action is the
\* string "BUY" and whose ticker is not in current_portfolio; adding a ticker
\* to current_portfolio removes its records and nothing else
C12_IgnoredAreUnheldBuys ==
    \A held \in SUBSET Tickers, w \in Windows :
        LET got == get_ignored_recommendations("a", held, w)
            recent == get_recent_recommendations("a", NoTicker, w)
            wanted == {r \in Range(recent) :
                          r.rec.action = "BUY" /\ r.ticker \notin held}
        IN  /\ Range(got) = wanted
            /\ Len(got) = Cardinality(wanted)
            /\ \A t \in Tickers \ held :
                  get_ignored_recommendations("a", held \cup {t}, w)
                     = SelectSeq(got, LAMBDA r : r.ticker # t)

\* a "BUY" of a ticker not held is returned, a "buy" of another ticker not
\* held is not, and holding the first ticker removes its record
C12_Witness ==
    \E t \in Tickers, u \in Tickers :
        LET got == get_ignored_recommendations("a", {}, 1)
            recent == get_recent_recommendations("a", NoTicker, 1)
        IN  /\ Len(got) = 1
            /\ got[1].ticker = t
            /\ \E i \in 1..Len(recent) :
                  recent[i].ticker = u /\ recent[i].rec.action = "buy"
            /\ get_ignored_recommendations("a", {t}, 1) = <<>>

\* C13, as claimed: should_recommend_again allows a ticker exactly when the
\* table holds no record of it dated within [today - minDaysSinceLast, today];
\* it allows a ticker never recommended and refuses a ticker that has a
\* record of today
C13_AllowedIffNoneWithinDays ==
    \A t \in Tickers, d \in Windows :
        LET answer == should_recommend_again("a", t, d, 5)
        IN  /\ answer[1] <=> (InClosedInterval("a", t, d) = {})
            /\ (DaysOf("a", t) = {}) => answer[1]
            /\ (now[1] \in DaysOf("a", t)) => ~answer[1]

\* C13, amended: should_recommend_again allows a ticker, as a first
\* recommendation, exactly when get_recent_recommendations(ticker,
\* minDaysSinceLast) is empty (no record of the ticker dated after
\* today - minDaysSinceLast, nor on that date at exactly midnight), and
\* otherwise refuses it with a reason that cites count_recommendations; it
\* allows a ticker never recommended, refuses a ticker recorded today when
\* minDaysSinceLast >= 1 and allows it after midnight when minDaysSinceLast = 0
C13_AllowedIffWindowEmpty ==
    \A t \in Tickers, d \in Windows :
        LET answer == should_recommend_again("a", t, d, 5)
            count == count_recommendations("a", t, d)
        IN  /\ answer[1] <=> (InWindow("a", t, d) = {})
            /\ answer[1] => answer[2] = "First time recommending"
            /\ ~answer[1] =>
                  /\ count = Cardinality(InWindow("a", t, d))
                  /\ answer[2] = "Already recommended " \o ToString(count)
                                    \o " times in last " \o ToString(d) \o " days"
            /\ (DaysOf("a", t) = {}) => answer[1]
            /\ (d >= 1 /\ now[1] \in DaysOf("a", t)) => ~answer[1]
            /\ (d = 0 /\ now[2] = 1) => answer[1]

\* a ticker recorded today and the day before is refused with a count of 2
\* for a window of two days and allowed for a window of none, while the
\* ticker never recommended is allowed
C13_Witness ==
    \E t \in Tickers, u \in Tickers :
        /\ DaysOf("a", t) = {now[1] - 1, now[1]}
        /\ DaysOf("a", u) = {}
        /\ should_recommend_again("a", t, 2, 5)
              = <<FALSE, "Already recommended 2 times in last 2 days">>
        /\ should_recommend_again("a", t, 0, 5)[1]
        /\ should_recommend_again("a", u, 2, 5) = <<TRUE, "First time recommending">>

\* C14: the tally of the summary maps exactly the tickers that occur in two
\* or more records of get_recent_recommendations(days=7) to the number of
\* their records there; a ticker with fewer records is no key of it
C14_TallyOfRepeats ==
    LET recent == get_recent_recommendations("a", NoTicker, SummaryWindow)
        tally == repeated_recommendations("a")
    IN  /\ \A t \in Tickers :
              LET n == Cardinality({i \in 1..Len(recent) : recent[i].ticker = t})
              IN  IF n >= 2
                  THEN KeyCount(tally, t) = 1 /\ DictGet(tally, t) = n
                  ELSE ~DictHas(tally, t)
        /\ \A i \in 1..Len(tally) : tally[i][1] \in Tickers

\* one ticker recorded twice within the week and tallied with 2, the other
\* ticker not tallied
C14_Witness ==
    \E t \in Tickers :
        /\ Cardinality(DaysOf("a", t)) = 2
        /\ now[1] >= SummaryWindow
        /\ repeated_recommendations("a") = << <<t, 2>> >>

\* the gain of an outcome in whole percent (the prices of the model give
\* whole percentages)
WholePct(o) ==
    ((o.current_price - o.recommended_price) * 100) \div o.recommended_price

RECURSIVE SumWholePct(_, _)
SumWholePct(outcomes, i) ==
    IF i > Len(outcomes) THEN 0
    ELSE WholePct(outcomes[i]) + SumWholePct(outcomes, i + 1)

Winners(outcomes) ==
    Cardinality({i \in 1..Len(outcomes) :
                    outcomes[i].current_price > outcomes[i].recommended_price})

\* avg_gain is the mean of the gains of the outcomes, 0 when there is none
MeanGain(perf, outcomes) ==
    /\ perf.total_calls = Len(outcomes)
    /\ perf.avg_gain[2] # 0
    /\ perf.avg_gain[1] * Len(outcomes) = SumWholePct(outcomes, 1) * perf.avg_gain[2]
    /\ (outcomes = <<>>) => perf.avg_gain[1] = 0

\* C15, as claimed: win_rate is the number of outcomes with a positive gain
\* divided by the number of outcomes, avg_gain is the mean gain, and both are
\* 0 when there is no outcome
C15_WinRateFraction ==
    \A cp \in TruthyPrices :
        LET summary == generate_memory_summary("a", {}, cp)
            outcomes == calculate_recommendation_outcomes("a", cp)
        IN  summary.ok =>
              LET perf == summary.value.performance
              IN  /\ MeanGain(perf, outcomes.value)
                  /\ perf.win_rate[2] # 0
                  /\ perf.win_rate[1] * Len(outcomes.value)
                        = Winners(outcomes.value) * perf.win_rate[2]
                  /\ (outcomes.value = <<>>) => perf.win_rate[1] = 0

\* C15, amended: win_rate is 100 times the number of outcomes with a positive
\* gain divided by the number of outcomes (a percentage), avg_gain is the
\* mean gain, and both are 0 when there is no outcome; the summary is
\* returned exactly when calculate_recommendation_outcomes returns
C15_WinRatePercent ==
    \A cp \in TruthyPrices :
        LET summary == generate_memory_summary("a", {}, cp)
            outcomes == calculate_recommendation_outcomes("a", cp)
        IN  /\ summary.ok <=> outcomes.ok
            /\ summary.ok =>
                 LET perf == summary.value.performance
                 IN  /\ MeanGain(perf, outcomes.value)
                     /\ perf.win_rate[2] # 0
                     /\ perf.win_rate[1] * Len(outcomes.value)
                           = 100 * Winners(outcomes.value) * perf.win_rate[2]
                     /\ (outcomes.value = <<>>) => perf.win_rate[1] = 0

\* a summary over two outcomes, one with a gain of 20 and one with a gain of
\* 0: win_rate 50 and avg_gain 10
C15_Witness ==
    \E cp \in TruthyPrices :
        LET summary == generate_memory_summary("a", {}, cp)
        IN  /\ summary.ok
            /\ summary.value.performance.total_calls = 2
            /\ summary.value.performance.win_rate[1]
                  = 50 * summary.value.performance.win_rate[2]
            /\ summary.value.performance.avg_gain[1]
                  = 10 * summary.value.performance.avg_gain[2]

\* C16: a record call whose write fails raises the exception to its caller,
\* and has opened the file for writing once: no second attempt
C16_WriteFailureSurfaces ==
    /\ outcome.writes <= 1
    /\ outcome.fault # "none" => (outcome.raised = "OSError" /\ outcome.writes = 1)
    /\ outcome.fault = "none" => outcome.raised = "None"

\* a call whose json.dump failed: it raised, the file is cut short and loads
\* as an empty table, while the table in memory holds the record
C16_Witness ==
    /\ outcome = Failed("dump")
    /\ disk.recommendations.exists
    /\ _load_json(disk.recommendations) = EmptyDict
    /\ mem["a"].recommendations # EmptyDict

\* a file that is missing, cannot be opened, or is cut short or no JSON
Missing(file) == ~file.exists
Unreadable(file) == file.exists /\ ~file.readable
Corrupt(file) ==
    /\ file.exists
    /\ \/ file.text = <<>>
       \/ file.text[Len(file.text)].t # "}"
       \/ \E i \in 1..Len(file.text) : file.text[i].t = "?"

\* the summary of a ledger without recommendations
EmptySummary ==
    [recent_recommendations_count |-> 0,
     performance |-> [total_calls |-> 0, win_rate |-> <<0, 1>>, avg_gain |-> <<0, 1>>,
                      winning_trades |-> <<>>, losing_trades |-> <<>>],
     ignored_stocks |-> <<>>,
     repeated_recommendations |-> <<>>]

C18_MostRecentFirst ==
    \A tk \in Tickers \cup {NoTicker}, w \in Windows :
        LET got == get_recent_recommendations("a", tk, w)
        IN  \A i \in 1..Len(got), j \in 1..Len(got) :
                i < j => DayOf(got[i].date) >= DayOf(got[j].date)

\* a result with records of two dates, the table holding the earlier date
\* first
C18_Witness ==
    \E w \in Windows :
        LET got == get_recent_recommendations("a", NoTicker, w)
            recs == mem["a"].recommendations
        IN  /\ Len(got) = 2
            /\ DayOf(got[1].date) > DayOf(got[2].date)
            /\ recs[1][1] = got[2].date

\* C19, as claimed: the record observable for (date, ticker) carries the
\* session of the last save_recommendation call made for that key; the only
\* session the table holds for the record is the one of its date entry
C19_SessionOfLastWrite ==
    \A n \in 1..Len(last_call.recommendations) :
        LET date == last_call.recommendations[n][1][1]
            v == last_call.recommendations[n][2]
        IN  /\ DictGet(mem["a"].recommendations, date).session = v.session
            /\ DictGet(_load_json(disk.recommendations), date).session = v.session

\* C20: whatever the order in which the dates were inserted into or loaded
\* into the table, get_recent_recommendations returns the records that a
\* filter of every stored record by its date against the cutoff returns: the
\* early exit drops no record whose date is not before the cutoff
C20_EarlyExitDropsNothing ==
    \A tk \in Tickers \cup {NoTicker}, w \in Windows :
        LET got == get_recent_recommendations("a", tk, w)
            cutoff == MinusDays(now, w)
            kept == {r \in OfTicker(StoredRecs(mem["a"].recommendations), tk) :
                        ~DtLess(strptime(r.date), cutoff)}
        IN  /\ Range(got) = kept
            /\ Len(got) = Cardinality(kept)

\* a table that holds a later date before an earlier one, as written and as
\* loaded from the file, and a query that stops at the earlier date and
\* returns the record of the later one
C20_Witness ==
    LET recs == mem["a"].recommendations
    IN  /\ Len(recs) = 2
        /\ DayOf(recs[1][1]) > DayOf(recs[2][1])
        /\ recs = _load_json(disk.recommendations)
        /\ \E w \in Windows :
              LET got == get_recent_recommendations("a", NoTicker, w)
              IN  Len(got) = 1 /\ got[1].date = recs[1][1]

\* the values of price_change_threshold the callers can pass
Thresholds == {0, 5, 50}

\* a recommendations table with the price of every record blanked
Unpriced(recs) ==
    [i \in 1..Len(recs) |->
        <<recs[i][1],
          [recs[i][2] EXCEPT !.stocks =
              [j \in 1..Len(@) |-> <<@[j][1], [@[j][2] EXCEPT !.price = 0]>>]]>>]

\* C21: should_recommend_again is a flat day-count gate: over two ledgers
\* whose tables hold the same records but for their prices, and for any two
\* values of price_change_threshold, it returns the same (allowed, reason)
C21_FlatDayCountGate ==
    Unpriced(mem["a"].recommendations) = Unpriced(mem["b"].recommendations) =>
        \A t \in Tickers, d \in Windows, th \in Thresholds, other \in Thresholds :
            should_recommend_again("a", t, d, th)
               = should_recommend_again("b", t, d, other)

\* two ledgers that hold one ticker on two dates, at a price that moved in
\* the one and stayed in the other, and both refuse the ticker
C21_Witness ==
    \E t \in Tickers :
        LET ra == get_recent_recommendations("a", t, 2)
            rb == get_recent_recommendations("b", t, 2)
        IN  /\ Unpriced(mem["a"].recommendations) = Unpriced(mem["b"].recommendations)
            /\ Len(ra) = 2 /\ Len(rb) = 2
            /\ ra[1].rec.price # ra[2].rec.price
            /\ rb[1].rec.price = rb[2].rec.price
            /\ ~should_recommend_again("a", t, 2, 5)[1]
            /\ ~should_recommend_again("b", t, 2, 5)[1]

\* C22: each write persists its table as one unit: whatever a record call
\* does, and also when its write fails part-way, every file afterwards is
\* either the file as it was before the call or the complete table as the
\* call left it, never an empty or a cut-short text
C22_WriteIsAtomic ==
    [][\A tb \in Tables :
          \/ disk'[tb] = disk[tb]
          \/ /\ WellFormed(disk'[tb].text)
             /\ _load_json(disk'[tb]) = mem'["a"][tb]]_vars

\* the portfolios a caller passes to the summary, as the tickers they hold
Portfolios == SUBSET Tickers

\* current_prices of a caller that has fetched no price: {}
NoPrices == [t \in {} |-> 0]

\* C23, as claimed: the ignored part of the summary holds every record of
\* get_ignored_recommendations(current_portfolio, days=7), whatever their
\* number
C23_AllIgnoredInSummary ==
    \A held \in Portfolios :
        LET summary == generate_memory_summary("a", held, NoPrices)
            ignored == get_ignored_recommendations("a", held, SummaryWindow)
        IN  summary.ok => summary.value.ignored_stocks = ignored

\* C23, amended: the ignored part of the summary holds the first five
\* records of get_ignored_recommendations(current_portfolio, days=7), the
\* most recent dates first, and all of them when there are five or fewer
C23_FirstFiveIgnored ==
    \A held \in Portfolios :
        LET summary == generate_memory_summary("a", held, NoPrices)
            ignored == get_ignored_recommendations("a", held, SummaryWindow)
        IN  /\ summary.ok
            /\ LET got == summary.value.ignored_stocks
               IN  /\ Len(got) = IF Len(ignored) <= 5 THEN Len(ignored) ELSE 5
                   /\ \A i \in 1..Len(got) : got[i] = ignored[i]
                   /\ \A i \in 1..Len(got), j \in 1..Len(ignored) :
                         i < j => DayOf(got[i].date) >= DayOf(ignored[j].date)

\* six ignored recommendations, of which the summary holds five: the record
\* left out is one of the oldest date
C23_Witness ==
    LET summary == generate_memory_summary("a", {}, NoPrices)
        ignored == get_ignored_recommendations("a", {}, SummaryWindow)
    IN  /\ Len(ignored) = 6
        /\ summary.ok
        /\ Len(summary.value.ignored_stocks) = 5
        /\ \A i \in 1..5 : DayOf(summary.value.ignored_stocks[i].date)
                              >= DayOf(ignored[6].date)

\* C24: history is permanent once its day has passed: whatever a later record
\* operation or construction does, every entry the persisted tables hold
\* under a date before today stays in them with the same contents
C24_PastDaysKept ==
    [][\A tb \in Tables :
          LET before == _load_json(disk[tb])
              after == _load_json(disk'[tb])
          IN  \A i \in 1..Len(before) :
                 DayOf(before[i][1]) < now[1] =>
                    /\ DictHas(after, before[i][1])
                    /\ DictGet(after, before[i][1]) = before[i][2]]_vars

\* the step leaves every table but tb as it is, in memory and in its file
OnlyTable(tb) ==
    \A other \in Tables \ {tb} :
        /\ disk'[other] = disk[other]
        /\ \A i \in Instances : mem'[i][other] = mem[i][other]

\* C25: the tables are independent and the queries read only: a
\* save_recommendation call, completed or failed, changes no table but the
\* recommendations, a save_portfolio_snapshot call none but the portfolio
\* history, a save_market_context call none but the market context, and a
\* query call changes no table, in memory or in its file
C25_FrameOfEachOperation ==
    [][/\ (\E fault \in Faults :
              \/ save_recommendation("a", "AAPL", "BUY", 50, "dip", "morning")
              \/ save_recommendation_write_error("a", "AAPL", "BUY", 50, "dip", "morning",
                                                 fault))
          => OnlyTable("recommendations")
       /\ (\E h \in SmallHoldings, fault \in Faults :
              \/ save_portfolio_snapshot("a", h, CashFor(h), ValueFor(h))
              \/ save_portfolio_snapshot_write_error("a", h, CashFor(h), ValueFor(h), fault))
          => OnlyTable("portfolio_history")
       /\ (\E ev \in Events, fault \in Faults :
              \/ save_market_context("a", 20000, 70, 1, ev)
              \/ save_market_context_write_error("a", 20000, 70, 1, ev, fault))
          => OnlyTable("market_context")
       /\ (\E q \in Queries : Query("a", q, {"AAPL"}, [t \in Tickers |-> 60]))
          => (mem' = mem /\ disk' = disk)]_vars

\* the three tables hold records, in memory and in their files, and the
\* latest call was a query
C25_Witness ==
    /\ \A tb \in Tables :
          mem["a"][tb] # EmptyDict /\ _load_json(disk[tb]) = mem["a"][tb]
    /\ outcome.writes = 0

\* C26: no update is lost between two ledgers that are alive at the same
\* time: every (date, ticker) that a save_recommendation call of either
\* ledger has recorded is a record of the persisted table, also after a later
\* write of the other ledger
C26_NoLostUpdate ==
    \A n \in 1..Len(last_call.recommendations) :
        LET date == last_call.recommendations[n][1][1]
            ticker == last_call.recommendations[n][1][2]
            persisted == _load_json(disk.recommendations)
        IN  /\ DictHas(persisted, date)
            /\ DictHas(DictGet(persisted, date).stocks, ticker)

\* C27: after a record call has returned or raised, the tables of the
\* instance equal the persisted tables, and every record that
\* get_recent_recommendations returns, count_recommendations counts or
\* should_recommend_again refuses a ticker for is a persisted record
C27_MemoryMatchesStore ==
    outcome.writes = 1 =>
        /\ \A tb \in Tables : mem["a"][tb] = _load_json(disk[tb])
        /\ \A t \in Tickers, w \in Windows :
              LET persisted == _load_json(disk.recommendations)
                  got == get_recent_recommendations("a", t, w)
                  stored == {i \in 1..Len(got) :
                                /\ DictHas(persisted, got[i].date)
                                /\ DictHas(DictGet(persisted, got[i].date).stocks, t)}
              IN  /\ stored = 1..Len(got)
                  /\ count_recommendations("a", t, w) = Cardinality(stored)
                  /\ ~should_recommend_again("a", t, w, 5)[1] => stored # {}

\* C28: a failed read does not destroy history: when an instance whose load
\* of the recommendations failed (its table is empty, the persisted table is
\* not) completes a record call, every (date, ticker) the persisted table
\* held before the call is still a record of it after the call
C28_FailedReadKeepsHistory ==
    [][LET before == _load_json(disk.recommendations)
           after == _load_json(disk'.recommendations)
       IN  (/\ mem["a"].recommendations = EmptyDict
            /\ before # EmptyDict
            /\ disk'.recommendations # disk.recommendations
            /\ outcome' = Completed) =>
              \A i \in 1..Len(before) :
                  /\ DictHas(after, before[i][1])
                  /\ \A j \in 1..Len(before[i][2].stocks) :
                        DictHas(DictGet(after, before[i][1]).stocks,
                                before[i][2].stocks[j][1])]_vars

\* C29: calculate_recommendation_outcomes and generate_memory_summary return
\* a value, and raise nothing, for every table that save_recommendation calls
\* can build and for every mapping of current prices
C29_OutcomesNeverFail ==
    \A cp \in CurrentPrices \cup TruthyPrices, held \in Portfolios :
        /\ calculate_recommendation_outcomes("a", cp).ok
        /\ generate_memory_summary("a", held, cp).ok

\* the days of the stored dates that lie inside the window of the last days
\* days
DatesInWindow(self, days) ==
    LET recs == mem[self].recommendations
    IN  {DayOf(recs[i][1]) :
            i \in {k \in 1..Len(recs) :
                      ~DtLess(strptime(recs[k][1]), MinusDays(now, days))}}

\* C30: recommendations are counted per day, not per session:
\* count_recommendations(t, d) is at most the number of distinct stored dates
\* inside the window, each date contributes at most one record of t, and a
\* ticker stored under no more than one date is no key of the tally of the
\* summary, in however many sessions of that day it was recorded
C30_CountedPerDay ==
    \A t \in Tickers :
        /\ \A w \in Windows :
              LET got == get_recent_recommendations("a", t, w)
              IN  /\ count_recommendations("a", t, w) <= Cardinality(DatesInWindow("a", w))
                  /\ \A i \in 1..Len(got), j \in 1..Len(got) :
                        DayOf(got[i].date) = DayOf(got[j].date) => i = j
        /\ Cardinality(DaysOf("a", t)) <= 1 => ~DictHas(repeated_recommendations("a"), t)

\* a ticker recorded by the morning job and again by the afternoon job of
\* one day, and on no other day: it is counted once and not tallied
C30_Witness ==
    \E t \in Tickers :
        LET recs == mem["a"].recommendations
            today == strftime(now)
        IN  /\ Len(recs) = 1
            /\ recs[1][1] = today
            /\ DictKeys(recs[1][2].stocks) = <<t>>
            /\ recs[1][2].session = "morning"
            /\ DictGet(last_call.recommendations, <<today, t>>).session = "afternoon"
            /\ count_recommendations("a", t, SummaryWindow) = 1
            /\ repeated_recommendations("a") = <<>>

====
